---- MODULE Spec2Model ----
(***************************************************************************)
(* Claim decision pipeline of claimsphere-ai: the claim status state       *)
(* machine (ClaimService.transition_status), the API handlers that write   *)
(* claim status (claims.py), the auto-approval evaluator                   *)
(* (AutoApprovalService), the rule engine (ValidationService) and the      *)
(* audit recorder (AuditService).                                          *)
(*                                                                         *)
(* Scores and thresholds are floats in [0,1] in the source; here they are  *)
(* integers in thousandths (0.85 -> 850), which leaves room for the sums   *)
(* that floating point does not compute exactly.  Amounts are whole        *)
(* dollars.                                                                *)
(* Timestamps (datetime.utcnow()) are a per-row logical clock: every       *)
(* UPDATE of a claim row advances claim.updated_at (the column has         *)
(* onupdate=datetime.utcnow) and the other timestamps written by the same  *)
(* UPDATE take that value; 0 stands for NULL.                              *)
(***************************************************************************)
EXTENDS Integers, Sequences, FiniteSets, TLC

(***************************************************************************)
(* Bounds of the model.                                                    *)
(***************************************************************************)
\* number of claim rows the claims table can hold
MaxClaims == 2
\* total number of audit_logs rows
MaxAudit == 3
\* number of validation_results rows stored per claim
MaxResults == 4
\* the clock of a row stops here: evaluate_claim writes no audit entry
MaxClock == 3

ClaimIds == 1..MaxClaims
Users == {"u1", "u2"}
Agents == {"a1"}
PlanIds == {"gold", "zero", "off"}

NULL == "null"

(***************************************************************************)
(* database/models.py: ClaimStatus, DecisionType                           *)
(***************************************************************************)
ClaimStatus ==
    {"draft", "submitted", "extracted", "validated", "auto_approved",
     "pending_review", "approved", "denied", "pended", "closed"}

DecisionType == {"approved", "denied", "pended", "escalated"}

\* a claim id whose row has not been inserted yet
NoRow == "none"

(***************************************************************************)
(* ClaimService._get_valid_transitions: the adjacency table.               *)
(***************************************************************************)
WrongTransitions(current_status) ==
    CASE current_status = "draft"          -> {"submitted", "approved"}
      [] current_status = "submitted"      -> {"extracted", "pending_review"}
      [] current_status = "extracted"      -> {"validated", "pending_review"}
      [] current_status = "validated"      ->
            {"auto_approved", "pending_review", "approved", "denied"}
      [] current_status = "pending_review" -> {"approved", "denied", "pended"}
      [] current_status = "pended"         -> {"submitted", "approved", "denied"}
      [] current_status = "auto_approved"  -> {"closed"}
      [] current_status = "approved"       -> {"closed"}
      [] current_status = "denied"         -> {"closed"}
      [] current_status = "closed"         -> {"pended"}
      [] OTHER                             -> {}

_get_valid_transitions(current_status) ==
    CASE current_status = "draft"          -> {"submitted"}
      [] current_status = "submitted"      -> {"extracted", "pending_review"}
      [] current_status = "extracted"      -> {"validated", "pending_review"}
      [] current_status = "validated"      ->
            {"auto_approved", "pending_review", "approved", "denied"}
      [] current_status = "pending_review" -> {"approved", "denied", "pended"}
      [] current_status = "pended"         -> {"submitted", "approved", "denied"}
      [] current_status = "auto_approved"  -> {"closed"}
      [] current_status = "approved"       -> {"closed"}
      [] current_status = "denied"         -> {"closed"}
      [] current_status = "closed"         -> {}
      [] OTHER                             -> {}

VARIABLES
    claims,       \* claims table: [ClaimIds -> row]; status NoRow = no such row
    plans,        \* plans table: [PlanIds -> row]
    rules,        \* validation_rules table, in ORDER BY "order" order
    results,      \* validation_results rows of each claim, in insertion order
    decisions,    \* decisions rows of each claim, in insertion order
    audit,        \* audit_logs rows of each entity (claim), in insertion order
    documents,    \* claim_documents rows of each claim, in insertion order
    policies,     \* member_policies table: a set of rows
    duplicate_matches, \* duplicate_matches table: a set of rows
    response,     \* outcome of the last completed call
    sessions      \* requests in flight: each one's position and what it read

vars ==
    <<claims, plans, rules, results, decisions, audit, documents, policies,
      duplicate_matches, response, sessions>>

(***************************************************************************)
(* Nullable columns.  A nullable number is <<>> (None) or <<v>>; a         *)
(* nullable string is NULL or the string.  A JSON condition is a record    *)
(* holding only the keys that are present, each numeric value nullable.    *)
(***************************************************************************)
None == <<>>
Some(v) == <<v>>
Val(o) == o[1]

Get(condition, key, default) ==
    IF key \in DOMAIN condition THEN condition[key] ELSE default

\* Python truthiness of a nullable number (None and 0 are falsy)
Truthy(o) == o # None /\ Val(o) # 0

\* what a _check_* helper hands back: a (passed, message) pair, or an exception
Ret(passed, message) == [raised |-> FALSE, passed |-> passed, message |-> message]
Raise(text) == [raised |-> TRUE, passed |-> FALSE, message |-> text]

\* provider_npi strings of the model and what str.isdigit() / len() give on them
NpiStrings == {"1234567890", "12345", "12345abcde"}
NpiIsDigit(npi) == npi \in {"1234567890", "12345"}
NpiHasTenChars(npi) == npi \in {"1234567890", "12345abcde"}

(***************************************************************************)
(* ValidationService._check_* : one check per rule_type.  claim is the     *)
(* claims row, docs its claim_documents rows.  A datetime is a number of   *)
(* half days since an epoch, so that two datetimes of one calendar day can *)
(* differ; DateOf is datetime.date() as a day number and Today is          *)
(* datetime.utcnow().date().                                               *)
(***************************************************************************)
DateOf(dt) == dt \div 2
Today == 2 * 200

_check_amount_limit(claim, condition) ==
    LET max_amount == Get(condition, "max_amount", None)
        min_amount == Get(condition, "min_amount", Some(0))
    IN  IF min_amount = None
        THEN Raise("'<' not supported between instances of 'float' and 'NoneType'")
        ELSE IF claim.total_amount < Val(min_amount)
        THEN Ret(FALSE, "Claim amount is below minimum")
        ELSE IF Truthy(max_amount) /\ claim.total_amount > Val(max_amount)
        THEN Ret(FALSE, "Claim amount exceeds maximum")
        ELSE Ret(TRUE, NULL)

_check_date_range(claim, condition) ==
    LET max_days_past == Get(condition, "max_days_past", Some(365))
        max_days_future == Get(condition, "max_days_future", Some(0))
    IN  IF claim.service_date = None
        THEN Ret(FALSE, "Service date is required")
        ELSE LET days_diff == Today - DateOf(Val(claim.service_date))
             IN  IF max_days_past = None
                 THEN Raise("'>' not supported between instances of 'int' and 'NoneType'")
                 ELSE IF days_diff > Val(max_days_past)
                 THEN Ret(FALSE, "Service date is too many days ago")
                 ELSE IF max_days_future = None
                 THEN Raise("bad operand type for unary -: 'NoneType'")
                 ELSE IF days_diff < 0 - Val(max_days_future)
                 THEN Ret(FALSE, "Service date is too many days in the future")
                 ELSE Ret(TRUE, NULL)

\* getattr(claim, field, None) is None, "" or []
FieldMissing(claim, field) ==
    CASE field = "provider_name"   -> claim.provider_name \in {NULL, ""}
      [] field = "provider_npi"    -> claim.provider_npi \in {NULL, ""}
      [] field = "plan_id"         -> claim.plan_id = NULL
      [] field = "service_date"    -> claim.service_date = None
      [] field = "diagnosis_codes" -> claim.diagnosis_codes = {}
      [] field = "procedure_codes" -> claim.procedure_codes = {}
      [] field = "total_amount"    -> FALSE
      [] OTHER                     -> TRUE

_check_required_fields(claim, condition) ==
    LET required_fields == Get(condition, "fields", {})
        missing == {f \in required_fields : FieldMissing(claim, f)}
    IN  IF missing # {}
        THEN Ret(FALSE, "Missing required fields")
        ELSE Ret(TRUE, NULL)

\* [doc.document_type for doc in claim.documents if doc.document_type]
UploadedTypes(docs) ==
    {d.document_type : d \in {e \in docs : e.document_type # NULL}}

_check_required_documents(docs, condition) ==
    LET required_types == Get(condition, "document_types", {})
        missing == {t \in required_types : t \notin UploadedTypes(docs)}
    IN  IF required_types = {}
        THEN Ret(TRUE, NULL)
        ELSE IF missing # {}
        THEN Ret(FALSE, "Missing required documents")
        ELSE Ret(TRUE, NULL)

\* db.query(MemberPolicy).filter(user_id == ..., plan_id == ...).first()
PolicyRows(pols, user_id, plan_id) ==
    {p \in pols : p.user_id = user_id /\ p.plan_id = plan_id}

_check_eligibility(pols, claim, condition) ==
    LET require_active == Get(condition, "require_active_policy", TRUE)
        found == PolicyRows(pols, claim.user_id, claim.plan_id)
    IN  IF claim.plan_id = NULL
        THEN IF require_active
             THEN Ret(FALSE, "No plan associated with claim")
             ELSE Ret(TRUE, NULL)
        ELSE IF found = {}
        THEN Ret(FALSE, "No policy found for this member and plan")
        ELSE LET policy == CHOOSE p \in found : TRUE
             IN  IF policy.status # "active"
                 THEN Ret(FALSE, "Policy is not active")
                 ELSE IF claim.service_date # None
                         /\ Val(claim.service_date) < policy.start_date
                 THEN Ret(FALSE, "Service date is before policy start date")
                 ELSE IF claim.service_date # None /\ policy.end_date # None
                         /\ Val(claim.service_date) > Val(policy.end_date)
                 THEN Ret(FALSE, "Service date is after policy end date")
                 ELSE Ret(TRUE, NULL)

_check_duplicates(claim, condition) ==
    LET threshold == Get(condition, "similarity_threshold", Some(850))
    IN  IF threshold = None
        THEN Raise("'>=' not supported between instances of 'float' and 'NoneType'")
        ELSE IF claim.duplicate_score >= Val(threshold)
        THEN Ret(FALSE, "Potential duplicate detected")
        ELSE Ret(TRUE, NULL)

_check_provider(claim, condition) ==
    LET require_npi == Get(condition, "require_npi", FALSE)
        has_npi == claim.provider_npi \notin {NULL, ""}
    IN  IF require_npi /\ ~has_npi
        THEN Ret(FALSE, "Provider NPI is required")
        ELSE IF has_npi
                /\ (~NpiIsDigit(claim.provider_npi)
                    \/ ~NpiHasTenChars(claim.provider_npi))
        THEN Ret(FALSE, "Invalid NPI format (must be 10 digits)")
        ELSE Ret(TRUE, NULL)

_check_category_rules(claim, condition) ==
    LET target_category == Get(condition, "category", NULL)
        max_amount == Get(condition, "max_amount", None)
        required_codes == Get(condition, "required_codes", {})
        all_codes == claim.diagnosis_codes \cup claim.procedure_codes
    IN  IF claim.category # target_category
        THEN Ret(TRUE, NULL)
        ELSE IF Truthy(max_amount) /\ claim.total_amount > Val(max_amount)
        THEN Ret(FALSE, "Amount exceeds category limit")
        ELSE IF required_codes # {} /\ required_codes \cap all_codes = {}
        THEN Ret(FALSE, "Missing required codes")
        ELSE Ret(TRUE, NULL)

\* the rule_type strings _evaluate_rule dispatches on
KnownRuleTypes ==
    {"amount_limit", "date_range", "required_fields", "required_documents",
     "eligibility", "duplicate_check", "provider_validation", "category_rules"}

(***************************************************************************)
(* ValidationService._evaluate_rule: passed starts True, message None; the *)
(* branch of the rule_type overwrites them, the else branch sets only the  *)
(* message, an exception sets passed = False and the error text.           *)
(***************************************************************************)
RuleOutcome(pols, claim, docs, rule) ==
    LET condition == rule.condition_json
        rule_type == rule.rule_type
    IN  CASE rule_type = "amount_limit" -> _check_amount_limit(claim, condition)
          [] rule_type = "date_range" -> _check_date_range(claim, condition)
          [] rule_type = "required_fields" ->
                _check_required_fields(claim, condition)
          [] rule_type = "required_documents" ->
                _check_required_documents(docs, condition)
          [] rule_type = "eligibility" ->
                _check_eligibility(pols, claim, condition)
          [] rule_type = "duplicate_check" -> _check_duplicates(claim, condition)
          [] rule_type = "provider_validation" -> _check_provider(claim, condition)
          [] rule_type = "category_rules" ->
                _check_category_rules(claim, condition)
          [] OTHER -> Ret(TRUE, "Unknown rule type")

_evaluate_rule(pols, claim, docs, rule) ==
    LET out == RuleOutcome(pols, claim, docs, rule)
        message == IF out.raised THEN "Rule evaluation error" ELSE out.message
    IN  [rule_id  |-> rule.id,
         passed   |-> IF out.raised THEN FALSE ELSE out.passed,
         severity |-> rule.severity,
         message  |-> IF message \notin {NULL, ""} THEN message
                      ELSE rule.error_message,
         error    |-> IF out.raised THEN out.message ELSE NULL]

\* the query of validate_claim: active rules, global or of the claim's plan
ApplicableRules(rs, claim) ==
    SelectSeq(rs, LAMBDA r :
        r.is_active /\ (r.plan_id = NULL \/ r.plan_id = claim.plan_id))

\* a variant in which the rule that raises ends the pass
AbortingRun(rs, pols, claim, docs) ==
    LET app == ApplicableRules(rs, claim)
        raising == {i \in 1..Len(app) : RuleOutcome(pols, claim, docs, app[i]).raised}
        n == IF raising = {} THEN Len(app)
             ELSE CHOOSE i \in raising : \A j \in raising : i <= j
    IN  [i \in 1..n |-> _evaluate_rule(pols, claim, docs, app[i])]

\* the list validate_claim returns: one result per applicable rule, in order
ValidationRun(rs, pols, claim, docs) ==
    LET app == ApplicableRules(rs, claim)
    IN  [i \in 1..Len(app) |-> _evaluate_rule(pols, claim, docs, app[i])]

(***************************************************************************)
(* ValidationService.get_validation_summary                                *)
(***************************************************************************)
get_validation_summary(res) ==
    LET failed == SelectSeq(res, LAMBDA r : ~r.passed)
        errors == SelectSeq(failed, LAMBDA r : r.severity = "error")
        warnings == SelectSeq(failed, LAMBDA r : r.severity = "warning")
    IN  [total_rules    |-> Len(res),
         failed         |-> Len(failed),
         errors         |-> Len(errors),
         warnings       |-> Len(warnings),
         is_valid       |-> Len(errors) = 0,
         error_messages |-> [i \in 1..Len(errors) |-> errors[i].message]]

(***************************************************************************)
(* AutoApprovalService._check_plan_thresholds: the failed threshold        *)
(* checks, in the order the code appends them.                             *)
(***************************************************************************)
AmountCapCheck(claim, plan) ==
    IF plan.auto_approve_amount_cap > 0
       /\ claim.total_amount > plan.auto_approve_amount_cap
    THEN <<"Amount exceeds auto-approve cap">>
    ELSE <<>>

OcrQualityCheck(claim, plan) ==
    IF claim.ocr_quality_score # None
       /\ Val(claim.ocr_quality_score) < plan.min_ocr_quality_score
    THEN <<"OCR quality below threshold">>
    ELSE <<>>

DuplicateScoreCheck(claim, plan) ==
    IF claim.duplicate_score > plan.max_duplicate_score
    THEN <<"Duplicate score exceeds threshold">>
    ELSE <<>>

RequiredDocumentsCheck(docs, plan) ==
    IF plan.required_documents # {}
       /\ \E t \in plan.required_documents : t \notin UploadedTypes(docs)
    THEN <<"Missing required documents">>
    ELSE <<>>

_check_plan_thresholds(claim, docs, plan) ==
    AmountCapCheck(claim, plan) \o OcrQualityCheck(claim, plan)
        \o DuplicateScoreCheck(claim, plan) \o RequiredDocumentsCheck(docs, plan)

(***************************************************************************)
(* AutoApprovalService.evaluate_claim, as a function of the rows it reads. *)
(* Step 1: the plan; 2: the rule engine; 3: warnings; 4: extraction        *)
(* confidence; 5: fraud risk.                                              *)
(***************************************************************************)
PlanFound(pls, claim) == claim.plan_id # NULL /\ claim.plan_id \in DOMAIN pls

PlanStep(pls, claim, docs) ==
    IF claim.plan_id = NULL
    THEN [failed |-> <<"No plan associated with claim">>, reasons |-> <<>>]
    ELSE IF claim.plan_id \notin DOMAIN pls
    THEN [failed |-> <<"Plan not found">>, reasons |-> <<>>]
    ELSE LET plan == pls[claim.plan_id]
             checks == _check_plan_thresholds(claim, docs, plan)
         IN  IF ~plan.auto_approve_enabled
             THEN [failed |-> <<"Auto-approval not enabled for this plan">>,
                   reasons |-> <<>>]
             ELSE IF ~plan.is_active
             THEN [failed |-> <<"Plan is not active">>, reasons |-> <<>>]
             ELSE [failed |-> checks,
                   reasons |-> IF checks = <<>>
                               THEN <<"Plan allows auto-approval">>
                               ELSE <<>>]

ValidationStep(summary) ==
    IF ~summary.is_valid
    THEN [failed |-> summary.error_messages, reasons |-> <<>>]
    ELSE [failed |-> <<>>, reasons |-> <<"All validation rules passed">>]

\* a variant that sends a claim to review for a failure of any severity below
\* error, info included
AnyFailureStep(summary) ==
    IF summary.failed # summary.errors
    THEN <<"Validation warnings present">>
    ELSE <<>>

WarningStep(summary) ==
    IF summary.warnings # 0
    THEN <<"Validation warnings present">>
    ELSE <<>>

ConfidenceStep(pls, claim) ==
    IF claim.extraction_confidence = None
    THEN [failed |-> <<>>, reasons |-> <<>>]
    ELSE LET min_confidence ==
                 IF PlanFound(pls, claim)
                 THEN pls[claim.plan_id].min_confidence_score
                 ELSE 850
         IN  IF Val(claim.extraction_confidence) < min_confidence
             THEN [failed |-> <<"Extraction confidence below threshold">>,
                   reasons |-> <<>>]
             ELSE [failed |-> <<>>,
                   reasons |-> <<"Extraction confidence meets threshold">>]

FraudStep(pls, claim) ==
    IF ~(claim.fraud_risk_score > 0)
    THEN [failed |-> <<>>, reasons |-> <<>>]
    ELSE LET max_fraud ==
                 IF PlanFound(pls, claim)
                 THEN pls[claim.plan_id].max_fraud_risk_score
                 ELSE 200
         IN  IF claim.fraud_risk_score > max_fraud
             THEN [failed |-> <<"Fraud risk score exceeds threshold">>,
                   reasons |-> <<>>]
             ELSE [failed |-> <<>>,
                   reasons |-> <<"Fraud risk score within acceptable range">>]

evaluate_claim(pls, rs, pols, claim, docs) ==
    LET validation_results == ValidationRun(rs, pols, claim, docs)
        validation_summary == get_validation_summary(validation_results)
        s1 == PlanStep(pls, claim, docs)
        s2 == ValidationStep(validation_summary)
        s3 == WarningStep(validation_summary)
        s4 == ConfidenceStep(pls, claim)
        s5 == FraudStep(pls, claim)
        failed_checks == s1.failed \o s2.failed \o s3 \o s4.failed \o s5.failed
        reasons == s1.reasons \o s2.reasons \o s4.reasons \o s5.reasons
    IN  [is_eligible        |-> Len(failed_checks) = 0,
         failed_checks      |-> failed_checks,
         reasons            |-> reasons,
         returned           |-> IF failed_checks # <<>> THEN failed_checks
                                ELSE reasons,
         validation_results |-> validation_results]

(***************************************************************************)
(* Rows.                                                                   *)
(***************************************************************************)
\* Claim(...) with the column defaults of database/models.py
NewClaim(user_id, status) ==
    [status                 |-> status,
     user_id                |-> user_id,
     plan_id                |-> NULL,
     assigned_agent_id      |-> NULL,
     category               |-> "other",
     total_amount           |-> 0,
     approved_amount        |-> None,
     service_date           |-> None,
     provider_name          |-> NULL,
     provider_npi           |-> NULL,
     diagnosis_codes        |-> {},
     procedure_codes        |-> {},
     ocr_quality_score      |-> None,
     extraction_confidence  |-> None,
     duplicate_score        |-> 0,
     fraud_risk_score       |-> 0,
     auto_approval_eligible |-> FALSE,
     auto_approval_reasons  |-> <<>>,
     updated_at             |-> 1,
     submitted_at           |-> 0,
     processed_at           |-> 0,
     deleted_at             |-> 0]

NoClaim == NewClaim(NULL, NoRow)

Exists(c) == claims[c].status # NoRow

\* the id the next inserted claim row gets
NextId(c) == ~Exists(c) /\ \A d \in ClaimIds : d < c => Exists(d)

\* datetime.utcnow() for an UPDATE of this row
Now(claim) == claim.updated_at + 1

\* AuditLog(...): the status under before_json / after_json, NULL when absent
AuditRow(action, actor, before_status, after_status) ==
    [action        |-> action,
     actor_user_id |-> actor,
     before_status |-> before_status,
     after_status  |-> after_status]

\* Decision(...)
DecisionRow(decided_by, decision, reason_code, approved_amount, is_auto, reasons) ==
    [decided_by_user_id    |-> decided_by,
     decision              |-> decision,
     reason_code           |-> reason_code,
     approved_amount       |-> approved_amount,
     is_auto_decision      |-> is_auto,
     auto_decision_reasons |-> reasons]

RECURSIVE SumLen(_, _)
SumLen(f, S) ==
    IF S = {} THEN 0
    ELSE LET x == CHOOSE y \in S : TRUE IN Len(f[x]) + SumLen(f, S \ {x})

\* room left in the audit_logs table
AuditRoom == SumLen(audit, ClaimIds) < MaxAudit

Reply(op, c, ok, error, from, to) ==
    [op |-> op, claim |-> c, ok |-> ok, error |-> error, from |-> from, to |-> to]

(***************************************************************************)
(* AuditService.log / log_status_change: one row appended and committed.   *)
(***************************************************************************)
\* a variant that keeps only the latest entry of the entity
log_latest(c, action, actor, before_status, after_status) ==
    [audit EXCEPT ![c] = <<AuditRow(action, actor, before_status, after_status)>>]
log(c, action, actor, before_status, after_status) ==
    [audit EXCEPT ![c] = Append(@, AuditRow(action, actor, before_status, after_status))]

log_status_change(c, old_status, new_status, actor) ==
    log(c, "status_change", actor, old_status, new_status)

(***************************************************************************)
(* ClaimService.transition_status: the row it writes when the transition   *)
(* is valid.                                                               *)
(***************************************************************************)
TransitionValid(claim, new_status) ==
    new_status \in _get_valid_transitions(claim.status)

TransitionedRow(claim, new_status) ==
    [claim EXCEPT
        !.status = new_status,
        !.updated_at = Now(claim),
        !.submitted_at = IF new_status = "submitted" THEN Now(claim) ELSE @,
        !.processed_at =
            IF new_status \in {"approved", "denied", "auto_approved"}
            THEN Now(claim) ELSE @]

\* a variant that validates after it has written and logged
transition_then_validate(c, new_status, actor, op) ==
    LET claim == claims[c]
    IN  /\ AuditRoom
        /\ claims' = [claims EXCEPT ![c] = TransitionedRow(claim, new_status)]
        /\ audit' = log_status_change(c, claim.status, new_status, actor)
        /\ response' = Reply(op, c, TransitionValid(claim, new_status),
                             IF TransitionValid(claim, new_status) THEN "" ELSE "ValueError",
                             claim.status, new_status)
\* the whole call: raise ValueError, or commit the row and log the change
transition_status(c, new_status, actor, op) ==
    LET claim == claims[c]
    IN  IF ~TransitionValid(claim, new_status)
        THEN /\ response' = Reply(op, c, FALSE, "ValueError", claim.status, new_status)
             /\ UNCHANGED <<claims, audit>>
        ELSE /\ AuditRoom
             /\ claims' = [claims EXCEPT ![c] = TransitionedRow(claim, new_status)]
             /\ audit' = log_status_change(c, claim.status, new_status, actor)
             /\ response' = Reply(op, c, TRUE, "", claim.status, new_status)

\* what every call leaves alone: the configuration tables
UNCHANGED_config == UNCHANGED <<plans, rules, policies>>

(***************************************************************************)
(* POST /claims (create_claim): ClaimService.create_claim, then the audit  *)
(* entry.  data is the request body.                                       *)
(***************************************************************************)
CreatedRow(user_id, data) ==
    [NewClaim(user_id, "draft") EXCEPT
        !.plan_id = data.plan_id,
        !.category = data.category,
        !.total_amount = data.total_amount,
        !.service_date = data.service_date,
        !.provider_name = data.provider_name,
        !.procedure_codes = data.procedure_codes]

CreateClaim(c, user, data) ==
    /\ NextId(c)
    /\ AuditRoom
    /\ claims' = [claims EXCEPT ![c] = CreatedRow(user, data)]
    /\ audit' = log(c, "create", user, NULL, "draft")
    /\ response' = Reply("create_claim", c, TRUE, "", NoRow, "draft")
    /\ UNCHANGED <<results, decisions, documents, duplicate_matches, sessions>>
    /\ UNCHANGED_config

(***************************************************************************)
(* The state machine called directly (transitionStatus of the core).       *)
(***************************************************************************)
TransitionStatus(c, new_status) ==
    /\ Exists(c)
    /\ transition_status(c, new_status, NULL, "transition_status")
    /\ UNCHANGED <<results, decisions, documents, duplicate_matches, sessions>>
    /\ UNCHANGED_config

\* a caller that asks for a target the graph allows
MoveAlongGraph(c, new_status) ==
    /\ Exists(c)
    /\ TransitionValid(claims[c], new_status)
    /\ TransitionStatus(c, new_status)

(***************************************************************************)
(* POST /claims/{id}/submit (submit_claim)                                 *)
(***************************************************************************)
submittable_statuses == {"draft", "submitted", "extracted", "validated", "pended"}

SubmitTarget(status) ==
    IF status = "draft" THEN "submitted" ELSE "pending_review"

SubmitClaim(c, user) ==
    /\ Exists(c)
    /\ claims[c].user_id = user                       \* else 403
    /\ claims[c].status \in submittable_statuses      \* else 400
    /\ transition_status(c, SubmitTarget(claims[c].status), user, "submit_claim")
    /\ UNCHANGED <<results, decisions, documents, duplicate_matches, sessions>>
    /\ UNCHANGED_config

(***************************************************************************)
(* POST /claims/{id}/decide (make_decision)                                *)
(***************************************************************************)
actionable_statuses ==
    {"submitted", "extracted", "validated", "pending_review", "pended"}

\* the status the handler assigns for a decision; ESCALATED assigns none
DecidedStatus(status, decision) ==
    CASE decision = "approved" -> "approved"
      [] decision = "denied"   -> "denied"
      [] decision = "pended"   -> "pended"
      [] OTHER                 -> status

\* the claim row make_decision commits
DecidedRow(claim, decision, approved_amount) ==
    [claim EXCEPT
        !.status = DecidedStatus(claim.status, decision),
        !.approved_amount =
            IF decision = "approved"
            THEN (IF Truthy(approved_amount) THEN approved_amount
                  ELSE Some(claim.total_amount))
            ELSE @,
        !.processed_at = Now(claim),
        !.updated_at = Now(claim)]

MakeDecision(c, agent, decision, approved_amount) ==
    /\ Exists(c)
    /\ claims[c].status \in actionable_statuses       \* else 400
    /\ LET row == DecidedRow(claims[c], decision, approved_amount)
       IN  /\ AuditRoom
           /\ decisions' = [decisions EXCEPT ![c] = Append(@,
                   DecisionRow(agent, decision, NULL, approved_amount, FALSE, <<>>))]
           /\ claims' = [claims EXCEPT ![c] = row]
           /\ audit' = log(c, "decision", agent, NULL, row.status)
           /\ response' = Reply("make_decision", c, TRUE, "", claims[c].status, row.status)
    /\ UNCHANGED <<results, documents, duplicate_matches, sessions>>
    /\ UNCHANGED_config

(***************************************************************************)
(* POST /claims/{id}/request-info (request_additional_info)                *)
(***************************************************************************)
RequestInfo(c, agent) ==
    /\ Exists(c)
    /\ AuditRoom
    /\ claims' = [claims EXCEPT ![c] =
            [@ EXCEPT !.status = "pended", !.updated_at = Now(claims[c])]]
    /\ decisions' = [decisions EXCEPT ![c] = Append(@,
            DecisionRow(agent, "pended", "INFO_REQUIRED", None, FALSE, <<>>))]
    /\ audit' = log(c, "request_info", agent, NULL, "pended")
    /\ response' = Reply("request_info", c, TRUE, "", claims[c].status, "pended")
    /\ UNCHANGED <<results, documents, duplicate_matches, sessions>>
    /\ UNCHANGED_config

(***************************************************************************)
(* POST /claims/{id}/respond (respond_to_info_request)                     *)
(***************************************************************************)
Respond(c, user) ==
    /\ Exists(c)
    /\ claims[c].deleted_at = 0                        \* else 404
    /\ claims[c].user_id = user                        \* else 403
    /\ claims[c].status = "pended"                     \* else 400
    /\ AuditRoom
    /\ decisions' = [decisions EXCEPT ![c] = Append(@,
            DecisionRow(user, "pended", "USER_RESPONSE", None, FALSE, <<>>))]
    /\ claims' = [claims EXCEPT ![c] =
            [@ EXCEPT !.status = "pending_review",
                      !.updated_at = Now(claims[c])]]
    /\ audit' = log(c, "user_responded", user, NULL, "pending_review")
    /\ response' = Reply("respond", c, TRUE, "", "pended", "pending_review")
    /\ UNCHANGED <<results, documents, duplicate_matches, sessions>>
    /\ UNCHANGED_config

(***************************************************************************)
(* DELETE /claims/{id} (delete_claim): soft delete                         *)
(***************************************************************************)
terminal_statuses == {"approved", "denied", "auto_approved", "closed"}

DeleteClaim(c, actor) ==
    /\ Exists(c)
    /\ claims[c].deleted_at = 0                        \* else 404
    /\ actor \in Agents \/ claims[c].user_id = actor   \* else 403
    /\ claims[c].status \notin terminal_statuses       \* else 400
    /\ AuditRoom
    /\ audit' = log(c, "soft_delete", actor, claims[c].status, NULL)
    /\ claims' = [claims EXCEPT ![c] =
            [@ EXCEPT !.deleted_at = Now(claims[c]),
                      !.updated_at = Now(claims[c])]]
    /\ response' = Reply("delete_claim", c, TRUE, "", claims[c].status, NULL)
    /\ UNCHANGED <<results, decisions, documents, duplicate_matches, sessions>>
    /\ UNCHANGED_config

(***************************************************************************)
(* POST /claims/{id}/assign (assign_claim_to_agent)                        *)
(***************************************************************************)
AssignClaim(c, agent, target_agent_id) ==
    /\ Exists(c)
    /\ AuditRoom
    /\ claims' = [claims EXCEPT ![c] =
            [@ EXCEPT !.assigned_agent_id = target_agent_id,
                      !.updated_at = Now(claims[c])]]
    /\ audit' = log(c, "assign", agent, NULL, NULL)
    /\ response' = Reply("assign", c, TRUE, "", claims[c].status, NULL)
    /\ UNCHANGED <<results, decisions, documents, duplicate_matches, sessions>>
    /\ UNCHANGED_config

(***************************************************************************)
(* ClaimService.find_duplicates                                            *)
(***************************************************************************)
Abs(x) == IF x < 0 THEN 0 - x ELSE x
Max2(a, b) == IF a > b THEN a ELSE b
SetMax(S) == CHOOSE x \in S : \A y \in S : y <= x

\* str.lower() on the provider names of the model
Lower(name) == IF name = "ACME" THEN "acme" ELSE name

\* a variant of the pool that keeps the claims in DRAFT and DENIED
other_claims_of_user(cl, c) ==
    {o \in ClaimIds \ {c} :
        /\ cl[o].status # NoRow
        /\ cl[o].user_id = cl[c].user_id}
\* the candidate pool: the query at the top of find_duplicates
similar_claims(cl, c) ==
    {o \in ClaimIds \ {c} :
        /\ cl[o].status # NoRow
        /\ cl[o].user_id = cl[c].user_id
        /\ cl[o].status \notin {"draft", "denied"}}

\* abs(a - b) / max(a, 1) < 0.05
AmountSimilar(claim, other) ==
    /\ claim.total_amount # 0
    /\ other.total_amount # 0
    /\ Abs(claim.total_amount - other.total_amount) * 20 < Max2(claim.total_amount, 1)

\* abs((claim.service_date - other.service_date).days) <= 7; timedelta.days
\* is the floor of the difference in days
DateSimilar(claim, other) ==
    /\ claim.service_date # None
    /\ other.service_date # None
    /\ Abs((Val(claim.service_date) - Val(other.service_date)) \div 2) <= 7

ProviderSame(claim, other) ==
    /\ claim.provider_name \notin {NULL, ""}
    /\ other.provider_name \notin {NULL, ""}
    /\ Lower(claim.provider_name) = Lower(other.provider_name)

CategorySame(claim, other) == claim.category = other.category

CodesShared(claim, other) ==
    /\ claim.procedure_codes # {}
    /\ other.procedure_codes # {}
    /\ claim.procedure_codes \cap other.procedure_codes # {}

\* match_reasons: the signals that matched
match_reasons(claim, other) ==
    {s \in {"amount", "date", "provider", "category", "procedure"} :
        CASE s = "amount"   -> AmountSimilar(claim, other)
          [] s = "date"     -> DateSimilar(claim, other)
          [] s = "provider" -> ProviderSame(claim, other)
          [] s = "category" -> CategorySame(claim, other)
          [] OTHER          -> CodesShared(claim, other)}

\* similarity_score: 0.0 += 0.3, 0.3, 0.2, 0.1, 0.1 in this order, in IEEE
\* doubles: 0.2 + 0.1 is 0.30000000000000004 and 0.3 + 0.3 + 0.1 + 0.1 is
\* 0.7999999999999999; every other sum is the exact decimal.
FloatSum(signals) ==
    LET w(s) == CASE s = "amount" -> 300 [] s = "date" -> 300
                  [] s = "provider" -> 200 [] OTHER -> 100
        exact == (IF "amount" \in signals THEN w("amount") ELSE 0)
                 + (IF "date" \in signals THEN w("date") ELSE 0)
                 + (IF "provider" \in signals THEN w("provider") ELSE 0)
                 + (IF "category" \in signals THEN w("category") ELSE 0)
                 + (IF "procedure" \in signals THEN w("procedure") ELSE 0)
    IN  CASE signals = {"provider", "category"}  -> exact + 1
          [] signals = {"provider", "procedure"} -> exact + 1
          [] signals = {"amount", "date", "category", "procedure"} -> exact - 1
          [] OTHER -> exact

similarity_score(claim, other) == FloatSum(match_reasons(claim, other))

Min2(a, b) == IF a < b THEN a ELSE b

\* the list find_duplicates returns, as the set of matched claim ids
duplicates(cl, c, threshold) ==
    {o \in similar_claims(cl, c) : similarity_score(cl[c], cl[o]) >= threshold}

MatchRow(cl, c, o) ==
    [claim_id         |-> c,
     matched_claim_id |-> o,
     similarity_score |-> Min2(similarity_score(cl[c], cl[o]), 1000),
     reasons          |-> match_reasons(cl[c], cl[o])]

HasMatch(dm, c, o) ==
    \E m \in dm : m.claim_id = c /\ m.matched_claim_id = o

\* a variant that adds a row for every match, recorded before or not
MatchesAdded(dm, cl, c, threshold) ==
    dm \cup {MatchRow(cl, c, o) : o \in duplicates(cl, c, threshold)}

\* the duplicate_matches table after the run: a row for each match that has none
MatchesAfter(dm, cl, c, threshold) ==
    dm \cup {MatchRow(cl, c, o) : o \in {x \in duplicates(cl, c, threshold) :
                                            ~HasMatch(dm, c, x)}}

\* claim.duplicate_score after the run: written only when there are matches
ScoreAfter(cl, c, threshold) ==
    IF duplicates(cl, c, threshold) # {}
    THEN SetMax({Min2(similarity_score(cl[c], cl[o]), 1000) :
                    o \in duplicates(cl, c, threshold)})
    ELSE cl[c].duplicate_score

\* ClaimService.find_duplicates(db, claim, threshold) called on a stored claim:
\* the rows of the matches that have none are added, and duplicate_score is
\* assigned only when the run returns matches
FindDuplicates(c, threshold) ==
    /\ Exists(c)
    /\ LET score == ScoreAfter(claims, c, threshold)
       IN  claims' = [claims EXCEPT ![c] =
               IF score = claims[c].duplicate_score THEN @
               ELSE [@ EXCEPT !.duplicate_score = score,
                              !.updated_at = Now(claims[c])]]
    /\ duplicate_matches' = MatchesAfter(duplicate_matches, claims, c, threshold)
    /\ response' = Reply("find_duplicates", c, duplicates(claims, c, threshold) # {},
                         "", claims[c].status, claims[c].status)
    /\ UNCHANGED <<results, decisions, audit, documents, sessions>>
    /\ UNCHANGED_config

(***************************************************************************)
(* ClaimService._extract_fields: x is what the extractor found.  Each      *)
(* extracted field has confidence 0.85; the mean of seven or more 0.85s    *)
(* is 0.8499999999999999 in IEEE doubles.                                  *)
(***************************************************************************)
category_map(claim_type) ==
    CASE claim_type \in {"medical", "dental", "vision", "pharmacy", "mental_health",
                         "hospital", "emergency", "preventive"} -> claim_type
      [] claim_type \in {"health", "doctor"} -> "medical"
      [] claim_type = "prescription" -> "pharmacy"
      [] OTHER -> "other"

ExtractedRow(claim, x) ==
    LET cat1 == IF x.claim_type \notin {NULL, ""} THEN category_map(x.claim_type)
                ELSE claim.category
        cat2 == IF cat1 = "other" /\ x.keyword_category # NULL
                THEN x.keyword_category ELSE cat1
    IN  [claim EXCEPT
            !.extraction_confidence =
                IF x.n_fields = 0 THEN @
                ELSE IF x.n_fields >= 7 THEN Some(849) ELSE Some(850),
            !.total_amount =
                IF x.total_amount # 0 /\ claim.total_amount = 0
                THEN x.total_amount ELSE @,
            !.provider_name =
                IF x.provider_name \notin {NULL, ""} /\ claim.provider_name \in {NULL, ""}
                THEN x.provider_name ELSE @,
            !.service_date =
                IF x.date_of_incident # None /\ claim.service_date = None
                THEN x.date_of_incident ELSE @,
            !.category = cat2]

DocumentRow(file_hash, quality) ==
    [file_hash |-> file_hash, document_type |-> NULL, ocr_quality_score |-> quality]

(***************************************************************************)
(* POST /claims/upload (upload_and_create_claim):                          *)
(* ClaimService.create_claim_from_document, then the audit entry.          *)
(* file_hash is the SHA-256 of the bytes, quality what the OCR returns     *)
(* (0 when it fails), x what the extractor finds.                          *)
(***************************************************************************)
HoldersOf(docs, file_hash) ==
    {o \in ClaimIds : \E d \in docs[o] : d.file_hash = file_hash}

FileMatchRow(c, original_claim_id) ==
    [claim_id         |-> c,
     matched_claim_id |-> original_claim_id,
     similarity_score |-> 1000,
     reasons          |-> {"file"}]

\* a variant that leaves the score of an exact file duplicate to the heuristic
UnmarkedRow(user_id, is_file_duplicate, process_with_ai, quality, x) ==
    LET base == NewClaim(user_id, "submitted")
    IN  IF process_with_ai
        THEN [ExtractedRow([base EXCEPT !.ocr_quality_score = Some(quality)], x)
                 EXCEPT !.status = "extracted"]
        ELSE base

\* the claim row before the duplicate detector runs
UploadedRow(user_id, is_file_duplicate, process_with_ai, quality, x) ==
    LET base == [NewClaim(user_id, "submitted") EXCEPT
                    !.duplicate_score = IF is_file_duplicate THEN 1000 ELSE 0]
    IN  IF process_with_ai
        THEN [ExtractedRow([base EXCEPT !.ocr_quality_score = Some(quality)], x)
                 EXCEPT !.status = "extracted"]
        ELSE base

UploadAndCreateClaim(c, user, file_hash, process_with_ai, quality, x) ==
    /\ NextId(c)
    /\ AuditRoom
    /\ LET holders == HoldersOf(documents, file_hash)
           is_file_duplicate == holders # {}
           row == UploadedRow(user, is_file_duplicate, process_with_ai, quality, x)
           cl1 == [claims EXCEPT ![c] = row]
           detect == process_with_ai /\ ~is_file_duplicate
       IN  /\ \E original \in (IF is_file_duplicate THEN holders ELSE {c}) :
                 duplicate_matches' =
                     IF is_file_duplicate
                     THEN duplicate_matches \cup {FileMatchRow(c, original)}
                     ELSE IF detect
                     THEN MatchesAfter(duplicate_matches, cl1, c, 600)
                     ELSE duplicate_matches
           /\ claims' = [claims EXCEPT ![c] =
                    IF detect
                    THEN [row EXCEPT !.duplicate_score = ScoreAfter(cl1, c, 600)]
                    ELSE row]
           /\ documents' = [documents EXCEPT ![c] =
                    {DocumentRow(file_hash,
                                 IF process_with_ai THEN Some(quality) ELSE None)}]
           /\ audit' = log(c, "create_from_upload", user, NULL, row.status)
           /\ response' = Reply("upload_and_create_claim", c, TRUE, "", NoRow, row.status)
    /\ UNCHANGED <<results, decisions, sessions>>
    /\ UNCHANGED_config

(***************************************************************************)
(* POST /claims/{id}/upload (upload_claim_document):                       *)
(* ClaimService.add_document, then the audit entry.                        *)
(***************************************************************************)
uploadable_statuses ==
    {"draft", "submitted", "extracted", "validated", "pended", "pending_review"}

\* sum(scores) / len(scores) over the documents with a truthy score
MeanQuality(docs) ==
    LET scored == {d \in docs : Truthy(d.ocr_quality_score)}
        RECURSIVE Sum(_)
        Sum(S) == IF S = {} THEN 0
                  ELSE LET d == CHOOSE e \in S : TRUE
                       IN  Val(d.ocr_quality_score) + Sum(S \ {d})
    IN  IF scored = {} THEN None ELSE Some(Sum(scored) \div Cardinality(scored))

\* the claim row add_document commits
DocumentedRow(claim, docs, processed, x) ==
    IF ~processed THEN claim
    ELSE LET row == ExtractedRow(claim, x)
             mean == MeanQuality(docs)
         IN  [row EXCEPT
                 !.ocr_quality_score = IF mean # None THEN mean ELSE @,
                 !.updated_at = Now(claim)]

UploadDocument(c, user, file_hash, processed, quality, x) ==
    /\ Exists(c)
    /\ claims[c].user_id = user                        \* else 403
    /\ claims[c].status \in uploadable_statuses        \* else 400
    /\ AuditRoom
    /\ IF \E d \in documents[c] : d.file_hash = file_hash
       THEN UNCHANGED <<claims, documents>>
       ELSE LET docs == documents[c] \cup
                    {DocumentRow(file_hash,
                                 IF processed THEN Some(quality) ELSE None)}
            IN  /\ documents' = [documents EXCEPT ![c] = docs]
                /\ claims' = [claims EXCEPT ![c] =
                        DocumentedRow(claims[c], docs, processed, x)]
    /\ audit' = log(c, "document_added", user, NULL, NULL)
    /\ response' = Reply("upload_claim_document", c, TRUE, "",
                         claims[c].status, claims[c].status)
    /\ UNCHANGED <<results, decisions, duplicate_matches, sessions>>
    /\ UNCHANGED_config

(***************************************************************************)
(* AutoApprovalService: the rows evaluate_claim, auto_approve_claim and    *)
(* route_to_agent_queue commit, and process_claim, which chains them.      *)
(***************************************************************************)
ResultsRoom(c, e) == Len(results[c]) + Len(e.validation_results) <= MaxResults

\* the claim row evaluate_claim commits
EvaluatedRow(claim, e) ==
    [claim EXCEPT
        !.auto_approval_eligible = e.is_eligible,
        !.auto_approval_reasons = IF e.is_eligible THEN e.reasons ELSE e.failed_checks,
        !.updated_at = Now(claim)]

\* a variant that approves without stamping processed_at
UnstampedApprovedRow(claim) ==
    [claim EXCEPT
        !.status = "auto_approved",
        !.approved_amount = Some(claim.total_amount),
        !.updated_at = Now(claim)]
\* the claim row auto_approve_claim commits
AutoApprovedRow(claim) ==
    [claim EXCEPT
        !.status = "auto_approved",
        !.approved_amount = Some(claim.total_amount),
        !.processed_at = Now(claim),
        !.updated_at = Now(claim)]

\* a variant that copies claim.approved_amount before the handler has set it
StaleAmountDecisionRow(claim) ==
    DecisionRow(NULL, "approved", "AUTO_APPROVED", claim.approved_amount, TRUE,
                claim.auto_approval_reasons)

AutoDecisionRow(claim) ==
    DecisionRow(NULL, "approved", "AUTO_APPROVED", Some(claim.total_amount), TRUE,
                claim.auto_approval_reasons)

\* a variant that records the reasons and leaves the claim where it was
UnroutedRow(claim, reasons) ==
    [claim EXCEPT
        !.auto_approval_eligible = FALSE,
        !.auto_approval_reasons = reasons,
        !.updated_at = Now(claim)]

\* the claim row route_to_agent_queue commits
RoutedRow(claim, reasons) ==
    [claim EXCEPT
        !.status = "pending_review",
        !.auto_approval_eligible = FALSE,
        !.auto_approval_reasons = reasons,
        !.updated_at = Now(claim)]

EvaluateClaim(c) ==
    /\ Exists(c)
    /\ Now(claims[c]) <= MaxClock
    /\ LET e == evaluate_claim(plans, rules, policies, claims[c], documents[c])
       IN  /\ ResultsRoom(c, e)
           /\ results' = [results EXCEPT ![c] = @ \o e.validation_results]
           /\ claims' = [claims EXCEPT ![c] = EvaluatedRow(claims[c], e)]
           /\ response' = Reply("evaluate_claim", c, e.is_eligible, "",
                                claims[c].status, claims[c].status)
    /\ UNCHANGED <<audit, decisions, documents, duplicate_matches, sessions>>
    /\ UNCHANGED_config

AutoApproveClaim(c) ==
    /\ Exists(c)
    /\ IF ~claims[c].auto_approval_eligible
       THEN /\ response' = Reply("auto_approve_claim", c, FALSE, "ValueError",
                                 claims[c].status, "auto_approved")
            /\ UNCHANGED <<claims, audit, decisions>>
       ELSE /\ AuditRoom
            /\ decisions' = [decisions EXCEPT ![c] = Append(@, AutoDecisionRow(claims[c]))]
            /\ claims' = [claims EXCEPT ![c] = AutoApprovedRow(claims[c])]
            /\ audit' = log(c, "auto_approve", NULL, NULL, "auto_approved")
            /\ response' = Reply("auto_approve_claim", c, TRUE, "",
                                 claims[c].status, "auto_approved")
    /\ UNCHANGED <<results, documents, duplicate_matches, sessions>>
    /\ UNCHANGED_config

ProcessClaim(c) ==
    /\ Exists(c)
    /\ AuditRoom
    /\ LET e == evaluate_claim(plans, rules, policies, claims[c], documents[c])
           evaluated == EvaluatedRow(claims[c], e)
       IN  /\ ResultsRoom(c, e)
           /\ results' = [results EXCEPT ![c] = @ \o e.validation_results]
           /\ IF e.is_eligible
              THEN /\ decisions' = [decisions EXCEPT ![c] =
                            Append(@, AutoDecisionRow(evaluated))]
                   /\ claims' = [claims EXCEPT ![c] = AutoApprovedRow(evaluated)]
                   /\ audit' = log(c, "auto_approve", NULL, NULL, "auto_approved")
                   /\ response' = Reply("process_claim", c, TRUE, "auto_approved",
                                        claims[c].status, "auto_approved")
              ELSE /\ UNCHANGED decisions
                   /\ claims' = [claims EXCEPT ![c] = RoutedRow(evaluated, e.returned)]
                   /\ audit' = log(c, "route_to_review", NULL, NULL, "pending_review")
                   /\ response' = Reply("process_claim", c, TRUE, "routed_to_review",
                                        claims[c].status, "pending_review")
    /\ UNCHANGED <<documents, duplicate_matches, sessions>>
    /\ UNCHANGED_config

(***************************************************************************)
(* The tables scripts/seed_data.py fills, and the request bodies and files *)
(* of the model.                                                           *)
(***************************************************************************)
PlanRow(enabled, active, cap, min_ocr, min_confidence, max_duplicate, max_fraud, required) ==
    [auto_approve_enabled   |-> enabled,
     is_active              |-> active,
     auto_approve_amount_cap |-> cap,
     min_ocr_quality_score  |-> min_ocr,
     min_confidence_score   |-> min_confidence,
     max_duplicate_score    |-> max_duplicate,
     max_fraud_risk_score   |-> max_fraud,
     required_documents     |-> required]

\* Plan(...) with the column defaults of database/models.py
DefaultPlan == PlanRow(FALSE, TRUE, 0, 800, 850, 300, 200, {})

\* the Gold PPO plan of the seed, a plan with the default cap, a plan left off
SeedPlans ==
    [p \in PlanIds |->
        CASE p = "gold" -> PlanRow(TRUE, TRUE, 500, 750, 800, 400, 300, {})
          [] p = "zero" -> [DefaultPlan EXCEPT !.auto_approve_enabled = TRUE]
          [] OTHER      -> DefaultPlan]

RuleRow(id, rule_type, condition_json, severity, plan_id) ==
    [id            |-> id,
     rule_type     |-> rule_type,
     condition_json |-> condition_json,
     severity      |-> severity,
     plan_id       |-> plan_id,
     is_active     |-> TRUE,
     error_message |-> "rule failed"]

\* the rules of the seed, by ValidationRule.order
SeedRules ==
    <<RuleRow("r_fields", "required_fields", [fields |-> {"provider_name"}],
              "warning", NULL),
      RuleRow("r_amount", "amount_limit",
              [max_amount |-> Some(50000), min_amount |-> Some(1)], "error", "gold")>>

PolicyRow(user_id, plan_id, policy_status, start_date, end_date) ==
    [user_id |-> user_id, plan_id |-> plan_id, status |-> policy_status,
     start_date |-> start_date, end_date |-> end_date]

SeedPolicies == {PolicyRow("u1", "gold", "active", 0, None)}

\* request bodies of POST /claims
ClaimData ==
    {[plan_id |-> "gold", category |-> "medical", total_amount |-> 250,
      service_date |-> Some(Today - 3), provider_name |-> "ACME",
      procedure_codes |-> {"99213"}],
     [plan_id |-> "zero", category |-> "medical", total_amount |-> 750,
      service_date |-> None, provider_name |-> NULL, procedure_codes |-> {}]}

\* what the extractor finds in a document
Extracts ==
    {[n_fields |-> 0, total_amount |-> 0, provider_name |-> NULL,
      date_of_incident |-> None, claim_type |-> NULL, keyword_category |-> NULL],
     [n_fields |-> 4, total_amount |-> 255, provider_name |-> "acme",
      date_of_incident |-> Some(Today - 2), claim_type |-> "doctor",
      keyword_category |-> NULL]}

\* uploaded files: the hash of the bytes, the quality the OCR gives them (0 when
\* it fails) and what the extractor finds in them
Files ==
    {[file_hash |-> "h1", content_type |-> "image/png", quality |-> 900,
      x |-> CHOOSE x \in Extracts : x.n_fields = 4],
     [file_hash |-> "h2", content_type |-> "application/pdf", quality |-> 0,
      x |-> CHOOSE x \in Extracts : x.n_fields = 0]}

\* file.content_type.startswith("image/") or file.content_type == "application/pdf"
Processable(content_type) == content_type \in {"image/png", "application/pdf"}

\* request bodies of POST /claims/{id}/decide
DecisionBodies ==
    {[decision |-> "approved", approved_amount |-> None],
     [decision |-> "approved", approved_amount |-> Some(100)],
     [decision |-> "denied", approved_amount |-> None],
     [decision |-> "pended", approved_amount |-> None],
     [decision |-> "escalated", approved_amount |-> None]}

\* the sample claims seed_sample_claims inserts: rows written directly, with no
\* audit entry, Decision or processed_at
SampleClaim(user_id, plan_id, category, sample_status, amount, approved, provider, days_ago) ==
    [NewClaim(user_id, sample_status) EXCEPT
        !.plan_id = plan_id,
        !.category = category,
        !.total_amount = amount,
        !.approved_amount = approved,
        !.provider_name = provider,
        !.service_date = Some(Today - 2 * days_ago),
        !.submitted_at = 1]

SampleClaims ==
    {SampleClaim("u1", "gold", "medical", "approved", 250, Some(250), "City Medical", 30),
     SampleClaim("u1", "gold", "pharmacy", "pending_review", 125, None, "CVS", 7),
     SampleClaim("u2", "off", "dental", "submitted", 450, None, "Smile Dental", 14)}

Sessions == {"s1", "s2"}
\* a worker with no request: pc is its place in the handler, the other fields
\* what the handler holds in its locals and its ORM session
IdleSession ==
    [pc              |-> "idle",
     op              |-> NULL,
     claim           |-> 0,
     actor           |-> NULL,
     read_status     |-> NoRow,
     decision        |-> NULL,
     approved_amount |-> None,
     eligible        |-> FALSE,
     reasons         |-> <<>>,
     overwrote       |-> NoRow,
     wrote           |-> NoRow,
     concurrent_with |-> {},
     ok              |-> FALSE,
     error           |-> ""]

(***************************************************************************)
(* Requests served by workers that share the database.  One event loop     *)
(* runs a handler body to its end, several workers or instances do not     *)
(* wait for each other, and the code takes no row lock and compares no     *)
(* version: a handler is the steps between its commits.  make_decision:    *)
(* the read and the status check; the commit of the Decision and the claim *)
(* row; the commit of the audit entry.  process_claim: the commit of       *)
(* evaluate_claim; the commit of auto_approve_claim or of                  *)
(* route_to_agent_queue; the commit of the audit entry.                    *)
(***************************************************************************)
InFlight(s) == sessions[s].pc \notin {"idle", "done"}

\* room in the audit_logs table for the entries of the requests in flight
ConcRoom ==
    SumLen(audit, ClaimIds) + Cardinality({t \in Sessions : InFlight(t)}) < MaxAudit

Started(s, op, c, actor) ==
    [sessions[s] EXCEPT
        !.op = op, !.claim = c, !.actor = actor,
        !.read_status = claims[c].status,
        !.concurrent_with = {t \in Sessions \ {s} : InFlight(t)}]

\* the UPDATE the unit of work emits holds the attributes the handler changed:
\* a status assigned the value that was loaded is not written
CommittedDecision(claim, session) ==
    LET loaded == [claim EXCEPT !.status = session.read_status]
        row == DecidedRow(loaded, session.decision, session.approved_amount)
    IN  [row EXCEPT !.status = IF row.status = session.read_status
                                THEN claim.status ELSE row.status,
                    !.updated_at = Now(claim),
                    !.processed_at = Now(claim)]

DecideBegin(s, c, agent, decision, approved_amount) ==
    /\ sessions[s].pc = "idle"
    /\ Exists(c)
    /\ ConcRoom
    /\ sessions' = [sessions EXCEPT ![s] =
            IF claims[c].status \in actionable_statuses
            THEN [Started(s, "make_decision", c, agent) EXCEPT
                     !.pc = "read", !.decision = decision,
                     !.approved_amount = approved_amount]
            ELSE [Started(s, "make_decision", c, agent) EXCEPT
                     !.pc = "done", !.decision = decision, !.error = "400"]]
    /\ UNCHANGED <<claims, results, decisions, audit, documents, duplicate_matches,
                   response>>
    /\ UNCHANGED_config

DecideCommit(s) ==
    LET session == sessions[s]
        c == session.claim
        row == CommittedDecision(claims[c], session)
    IN  /\ session.pc = "read"
        /\ session.op = "make_decision"
        /\ decisions' = [decisions EXCEPT ![c] = Append(@,
                DecisionRow(session.actor, session.decision, NULL,
                            session.approved_amount, FALSE, <<>>))]
        /\ claims' = [claims EXCEPT ![c] = row]
        /\ sessions' = [sessions EXCEPT ![s] =
                [@ EXCEPT !.pc = "committed", !.overwrote = claims[c].status,
                          !.wrote = IF row.status = claims[c].status
                                    THEN NoRow ELSE row.status]]
        /\ UNCHANGED <<results, audit, documents, duplicate_matches, response>>
        /\ UNCHANGED_config

\* the audit entry reads claim.status after the commit expired the row
DecideAudit(s) ==
    LET session == sessions[s]
        c == session.claim
    IN  /\ session.pc = "committed"
        /\ session.op = "make_decision"
        /\ audit' = log(c, "decision", session.actor, NULL, claims[c].status)
        /\ sessions' = [sessions EXCEPT ![s] = [@ EXCEPT !.pc = "done", !.ok = TRUE]]
        /\ response' = Reply("make_decision", c, TRUE, "", session.read_status,
                             claims[c].status)
        /\ UNCHANGED <<claims, results, decisions, documents, duplicate_matches>>
        /\ UNCHANGED_config

ProcessEvaluate(s, c) ==
    /\ sessions[s].pc = "idle"
    /\ Exists(c)
    /\ ConcRoom
    /\ LET e == evaluate_claim(plans, rules, policies, claims[c], documents[c])
       IN  /\ ResultsRoom(c, e)
           /\ results' = [results EXCEPT ![c] = @ \o e.validation_results]
           /\ claims' = [claims EXCEPT ![c] = EvaluatedRow(claims[c], e)]
           /\ sessions' = [sessions EXCEPT ![s] =
                   [Started(s, "process_claim", c, NULL) EXCEPT
                       !.pc = "evaluated", !.eligible = e.is_eligible,
                       !.reasons = e.returned]]
    /\ UNCHANGED <<decisions, audit, documents, duplicate_matches, response>>
    /\ UNCHANGED_config

\* auto_approve_claim reads the flag of the row again: it raises when another
\* request cleared it
ProcessApply(s) ==
    LET session == sessions[s]
        c == session.claim
    IN  /\ session.pc = "evaluated"
        /\ IF session.eligible /\ ~claims[c].auto_approval_eligible
           THEN /\ sessions' = [sessions EXCEPT ![s] =
                        [@ EXCEPT !.pc = "done", !.error = "ValueError"]]
                /\ UNCHANGED <<claims, decisions>>
           ELSE IF session.eligible
           THEN /\ decisions' = [decisions EXCEPT ![c] =
                        Append(@, AutoDecisionRow(claims[c]))]
                /\ claims' = [claims EXCEPT ![c] = AutoApprovedRow(claims[c])]
                /\ sessions' = [sessions EXCEPT ![s] =
                        [@ EXCEPT !.pc = "committed",
                                  !.overwrote = claims[c].status,
                                  !.wrote = "auto_approved"]]
           ELSE /\ claims' = [claims EXCEPT ![c] = RoutedRow(claims[c], session.reasons)]
                /\ sessions' = [sessions EXCEPT ![s] =
                        [@ EXCEPT !.pc = "committed",
                                  !.overwrote = claims[c].status,
                                  !.wrote = "pending_review"]]
                /\ UNCHANGED decisions
        /\ UNCHANGED <<results, audit, documents, duplicate_matches, response>>
        /\ UNCHANGED_config

ProcessAudit(s) ==
    LET session == sessions[s]
        c == session.claim
    IN  /\ session.pc = "committed"
        /\ session.op = "process_claim"
        /\ audit' = log(c, IF session.eligible THEN "auto_approve" ELSE "route_to_review",
                        NULL, NULL, claims[c].status)
        /\ sessions' = [sessions EXCEPT ![s] = [@ EXCEPT !.pc = "done", !.ok = TRUE]]
        /\ response' = Reply("process_claim", c, TRUE, "", session.read_status,
                             claims[c].status)
        /\ UNCHANGED <<claims, results, decisions, documents, duplicate_matches>>
        /\ UNCHANGED_config

\* AuditService.log raises (the connection is lost, the worker is killed): the
\* request ends in an error after its first commit
AuditFails(s) ==
    /\ sessions[s].pc = "committed"
    /\ sessions' = [sessions EXCEPT ![s] = [@ EXCEPT !.pc = "done", !.error = "500"]]
    /\ response' = Reply(sessions[s].op, sessions[s].claim, FALSE, "500",
                         sessions[s].read_status, sessions[s].wrote)
    /\ UNCHANGED <<claims, results, decisions, audit, documents, duplicate_matches>>
    /\ UNCHANGED_config

\* the tables no sample row is written to, and no request in flight
EmptyTables ==
    /\ results = [c \in ClaimIds |-> <<>>]
    /\ decisions = [c \in ClaimIds |-> <<>>]
    /\ audit = [c \in ClaimIds |-> <<>>]
    /\ duplicate_matches = {}
    /\ response = Reply("none", 0, TRUE, "", NoRow, NoRow)
    /\ sessions = [s \in Sessions |-> IdleSession]

\* the database after the seed, seen through one of its sample claims
Init ==
    /\ \E sample \in SampleClaims :
          claims = [c \in ClaimIds |-> IF c = 1 THEN sample ELSE NoClaim]
    /\ plans = SeedPlans
    /\ rules = SeedRules
    /\ policies = SeedPolicies
    /\ documents = [c \in ClaimIds |-> {}]
    /\ EmptyTables

Next ==
    \/ \E c \in ClaimIds, u \in Users, data \in ClaimData : CreateClaim(c, u, data)
    \/ \E c \in ClaimIds, u \in Users, f \in Files, ai \in BOOLEAN :
          UploadAndCreateClaim(c, u, f.file_hash, ai, f.quality, f.x)
    \/ \E c \in ClaimIds, u \in Users, f \in Files :
          UploadDocument(c, u, f.file_hash, Processable(f.content_type), f.quality, f.x)
    \/ \E c \in ClaimIds, t \in ClaimStatus : MoveAlongGraph(c, t)
    \/ \E c \in ClaimIds, u \in Users : SubmitClaim(c, u)
    \/ \E c \in ClaimIds, a \in Agents, d \in DecisionBodies :
          MakeDecision(c, a, d.decision, d.approved_amount)
    \/ \E c \in ClaimIds, a \in Agents : RequestInfo(c, a)
    \/ \E c \in ClaimIds, u \in Users : Respond(c, u)
    \/ \E c \in ClaimIds, actor \in Users \cup Agents : DeleteClaim(c, actor)
    \/ \E c \in ClaimIds, a \in Agents, t \in Agents : AssignClaim(c, a, t)
    \/ \E c \in ClaimIds : ProcessClaim(c)

Spec == Init /\ [][Next]_vars

(***************************************************************************)
(* The state machine on its own: transition_status applied to a claim in   *)
(* each of the ten statuses, with every target, and its one caller         *)
(* submit_claim.                                                           *)
(***************************************************************************)
InitSM ==
    /\ \E sample \in SampleClaims, s \in ClaimStatus :
          claims = [c \in ClaimIds |->
                       IF c = 1 THEN [sample EXCEPT !.status = s] ELSE NoClaim]
    /\ plans = SeedPlans
    /\ rules = SeedRules
    /\ policies = SeedPolicies
    /\ documents = [c \in ClaimIds |-> {}]
    /\ EmptyTables

NextSM ==
    \/ \E c \in ClaimIds, t \in ClaimStatus : TransitionStatus(c, t)
    \/ \E c \in ClaimIds, u \in Users : SubmitClaim(c, u)

SpecSM == InitSM /\ [][NextSM]_vars

(***************************************************************************)
(* Two workers and the sample claims of the seed that await a decision.    *)
(***************************************************************************)
InitConc ==
    /\ \E sample \in {r \in SampleClaims : r.status \in actionable_statuses} :
          claims = [c \in ClaimIds |-> IF c = 1 THEN sample ELSE NoClaim]
    /\ plans = SeedPlans
    /\ rules = SeedRules
    /\ policies = SeedPolicies
    /\ documents = [c \in ClaimIds |-> {}]
    /\ EmptyTables

NextConc ==
    \/ \E s \in Sessions, c \in ClaimIds, a \in Agents, d \in DecisionBodies :
          DecideBegin(s, c, a, d.decision, d.approved_amount)
    \/ \E s \in Sessions : DecideCommit(s)
    \/ \E s \in Sessions : DecideAudit(s)
    \/ \E s \in Sessions, c \in ClaimIds : ProcessEvaluate(s, c)
    \/ \E s \in Sessions : ProcessApply(s)
    \/ \E s \in Sessions : ProcessAudit(s)
    \/ \E s \in Sessions : AuditFails(s)

SpecConc == InitConc /\ [][NextConc]_vars

(***************************************************************************)
(* The transition graph of the specification (section 4.4), as edges.      *)
(***************************************************************************)
Edges ==
    {<<"draft", "submitted">>,
     <<"submitted", "extracted">>, <<"submitted", "pending_review">>,
     <<"extracted", "validated">>, <<"extracted", "pending_review">>,
     <<"validated", "auto_approved">>, <<"validated", "pending_review">>,
     <<"validated", "approved">>, <<"validated", "denied">>,
     <<"pending_review", "approved">>, <<"pending_review", "denied">>,
     <<"pending_review", "pended">>,
     <<"pended", "submitted">>, <<"pended", "approved">>, <<"pended", "denied">>,
     <<"auto_approved", "closed">>, <<"approved", "closed">>,
     <<"denied", "closed">>}

\* a step changes the status of claim c
StatusChanged(c) ==
    claims[c].status # NoRow /\ claims'[c].status # claims[c].status

\* C1: transition_status(claim in status current, target) succeeds, and leaves
\* the claim in target, if and only if current -> target is an edge of the
\* graph; every other pair is rejected with an error.
C1_TransitionIffAdjacent ==
    response.op = "transition_status" =>
        /\ response.ok <=> <<response.from, response.to>> \in Edges
        /\ response.ok => claims[response.claim].status = response.to
        /\ ~response.ok => /\ response.error = "ValueError"
                           /\ claims[response.claim].status = response.from

\* DRAFT -> APPROVED was asked for and rejected
C1_Witness ==
    /\ response.op = "transition_status"
    /\ ~response.ok
    /\ response.from = "draft"
    /\ response.to = "approved"
    /\ claims[response.claim].status = "draft"

\* C2: every change of a claim's status, by any operation, is an edge of the
\* transition graph.
C2_StatusChangesAreEdges ==
    [][\A c \in ClaimIds :
          StatusChanged(c) => <<claims[c].status, claims'[c].status>> \in Edges]_vars

\* C5: once a claim is CLOSED, no operation changes its status.
C5_ClosedIsTerminal ==
    [][\A c \in ClaimIds :
          claims[c].status = "closed" => claims'[c].status = "closed"]_vars

\* C6: every step that changes a claim's status appends exactly one audit
\* entry for that claim, carrying the status before and the status after.
C6_OneAuditEntryPerTransition ==
    [][\A c \in ClaimIds :
          StatusChanged(c) =>
              /\ Len(audit'[c]) = Len(audit[c]) + 1
              /\ SubSeq(audit'[c], 1, Len(audit[c])) = audit[c]
              /\ audit'[c][Len(audit'[c])].before_status = claims[c].status
              /\ audit'[c][Len(audit'[c])].after_status = claims'[c].status]_vars

(***************************************************************************)
(* Concurrent requests.                                                    *)
(***************************************************************************)
\* two decide requests on one claim that were in flight at the same time and
\* have both returned
ConcurrentDecisions(s1, s2) ==
    /\ s1 # s2
    /\ sessions[s1].op = "make_decision"
    /\ sessions[s2].op = "make_decision"
    /\ sessions[s1].claim = sessions[s2].claim
    /\ sessions[s1].pc = "done"
    /\ sessions[s2].pc = "done"
    /\ s1 \in sessions[s2].concurrent_with \/ s2 \in sessions[s1].concurrent_with

\* C3: two concurrent decide calls on the same claim never both succeed, and
\* they leave at most one Decision row on the claim.
C3_OneConcurrentDecisionWins ==
    \A s1, s2 \in Sessions :
        ConcurrentDecisions(s1, s2) =>
            /\ ~(sessions[s1].ok /\ sessions[s2].ok)
            /\ Len(decisions[sessions[s1].claim]) <= 1

\* the Decision row that stands for a decided status
DecisionFor(status, row) ==
    IF status = "auto_approved"
    THEN row.is_auto_decision
    ELSE ~row.is_auto_decision /\ row.decision = status

\* C4: evaluate-then-transition is atomic: a decided status is never in the
\* database without its Decision row and its audit entry, and a status is
\* never written on top of a status other than the one the request read.
C4_EvaluateThenTransitionIsAtomic ==
    /\ \A c \in ClaimIds :
          claims[c].status \in {"approved", "denied", "pended", "auto_approved"} =>
              /\ \E i \in DOMAIN decisions[c] :
                    DecisionFor(claims[c].status, decisions[c][i])
              /\ \E i \in DOMAIN audit[c] :
                    audit[c][i].after_status = claims[c].status
    /\ \A s \in Sessions :
          sessions[s].wrote # NoRow =>
              sessions[s].overwrote = sessions[s].read_status

(***************************************************************************)
(* The evaluator on its own: evaluate_claim applied to a claim, a plan and *)
(* a rule set drawn from the sets below, then auto_approve_claim or        *)
(* process_claim.  fraud_risk_score and document_type are columns this     *)
(* code reads and never writes: their values are inputs.                   *)
(***************************************************************************)
\* the Gold PPO plan of the seed
GoldPlan == SeedPlans["gold"]

\* the Gold PPO thresholds, with the switches, the cap and the required
\* documents drawn
EvalPlans ==
    {[p \in PlanIds |->
         IF p = "gold"
         THEN [GoldPlan EXCEPT !.auto_approve_enabled = sw[1],
                               !.is_active = sw[2],
                               !.auto_approve_amount_cap = cap,
                               !.required_documents = required]
         ELSE SeedPlans[p]] :
       sw \in {<<TRUE, TRUE>>, <<FALSE, TRUE>>, <<TRUE, FALSE>>},
       cap \in {0, 500},
       required \in {{}, {"bill"}}}

\* rule sets: the seed's; a rule of a type the engine does not know; a failing
\* rule of severity info; a failing rule of severity warning; a rule whose
\* condition holds "min_amount": null, on which the comparison raises, before
\* a rule of the seed
EvalRules ==
    {SeedRules,
     <<RuleRow("r_custom", "network_check", [x |-> None], "error", NULL)>>,
     <<RuleRow("r_npi", "required_fields", [fields |-> {"provider_npi"}],
               "info", NULL)>>,
     <<RuleRow("r_codes", "required_fields", [fields |-> {"diagnosis_codes"}],
               "warning", NULL)>>,
     <<RuleRow("r_broken", "amount_limit", [min_amount |-> None], "error", NULL),
       SeedRules[1]>>}

EvalClaims ==
    {[SampleClaim("u1", plan_id, "medical", "validated", total_amount, None,
                  "City Medical", 3) EXCEPT
         !.ocr_quality_score = ocr,
         !.extraction_confidence = confidence,
         !.duplicate_score = duplicate,
         !.fraud_risk_score = fraud] :
       plan_id \in {"gold", "ghost", NULL},
       total_amount \in {500, 501},
       ocr \in {None, Some(749), Some(750)},
       confidence \in {None, Some(799), Some(800)},
       duplicate \in {400, 401},
       fraud \in {0, 300, 301}}

EvalDocuments ==
    {{}, {[DocumentRow("h1", Some(900)) EXCEPT !.document_type = "bill"]}}

InitEval ==
    /\ \E row \in EvalClaims :
          claims = [c \in ClaimIds |-> IF c = 1 THEN row ELSE NoClaim]
    /\ plans \in EvalPlans
    /\ \E docs \in EvalDocuments :
          documents = [c \in ClaimIds |-> IF c = 1 THEN docs ELSE {}]
    \* a plan the claim does not name is the seed's, and documents are drawn
    \* for the plans that require some
    /\ claims[1].plan_id # "gold" => plans = SeedPlans
    /\ plans["gold"].required_documents = {} => documents[1] = {}
    /\ rules \in EvalRules
    /\ policies = SeedPolicies
    /\ EmptyTables

NextEval ==
    \/ \E c \in ClaimIds : EvaluateClaim(c)
    \/ \E c \in ClaimIds : AutoApproveClaim(c)

SpecEval == InitEval /\ [][NextEval]_vars

(***************************************************************************)
(* Document intake and duplicate detection: claims created from uploaded   *)
(* files, find_duplicates run again on stored claims, and decisions, which *)
(* take a denied claim out of the detector's candidates.                   *)
(***************************************************************************)
\* the files of the model, and two more whose content resembles the first: one
\* with the same provider and category, one that shares amount and date only
DupFiles ==
    Files \cup
    {[file_hash |-> "h3", content_type |-> "image/png", quality |-> 900,
      x |-> [n_fields |-> 4, total_amount |-> 250, provider_name |-> "ACME",
             date_of_incident |-> Some(Today - 3), claim_type |-> "medical",
             keyword_category |-> NULL]],
     [file_hash |-> "h4", content_type |-> "image/png", quality |-> 900,
      x |-> [n_fields |-> 4, total_amount |-> 250, provider_name |-> "Other",
             date_of_incident |-> Some(Today - 3), claim_type |-> "dental",
             keyword_category |-> NULL]]}

\* the threshold create_claim_from_document passes, and the default
Thresholds == {600, 700}

\* an empty claims table, or one sample claim of the seed
InitDup ==
    /\ \E first \in SampleClaims \cup {NoClaim} :
          claims = [c \in ClaimIds |-> IF c = 1 THEN first ELSE NoClaim]
    /\ plans = SeedPlans
    /\ rules = SeedRules
    /\ policies = SeedPolicies
    /\ documents = [c \in ClaimIds |-> {}]
    /\ EmptyTables

NextDup ==
    \/ \E c \in ClaimIds, u \in Users, f \in DupFiles, ai \in BOOLEAN :
          UploadAndCreateClaim(c, u, f.file_hash, ai, f.quality, f.x)
    \/ \E c \in ClaimIds, t \in Thresholds : FindDuplicates(c, t)
    \* the decision that takes a claim out of the pool find_duplicates compares
    \/ \E c \in ClaimIds, a \in Agents : MakeDecision(c, a, "denied", None)

SpecDup == InitDup /\ [][NextDup]_vars

(***************************************************************************)
(* find_duplicates on stored claims: the claim it is called on and one     *)
(* other stored claim, with the columns the heuristic reads drawn from     *)
(* small sets that sit on both sides of each comparison.                   *)
(***************************************************************************)
SimRow(user_id, sim_status, amount, date, provider, category, codes) ==
    [NewClaim(user_id, sim_status) EXCEPT !.total_amount = amount, !.service_date = date, !.provider_name = provider, !.category = category, !.procedure_codes = codes]

\* 100 and 105 differ by 5% of the one and less than 5% of the other; the
\* dates are 7.5 and 8 days from Today - 16
SimAmounts == {0, 100, 102, 105}
SimDates == {None, Some(Today - 16), Some(Today - 1), Some(Today)}

SimSubjects ==
    {SimRow("u1", st, a, d, p, "medical", pc) :
        st \in {"draft", "submitted"}, a \in SimAmounts \ {102},
        d \in SimDates \ {Some(Today)}, p \in {NULL, "ACME"}, pc \in {{}, {"99213"}}}

SimOthers ==
    {SimRow(u, st, a, d, p, k, pc) :
        u \in Users, st \in {"draft", "submitted", "denied"}, a \in SimAmounts \ {0},
        d \in SimDates \ {None}, p \in {"acme", "Other"},
        k \in {"medical", "dental"}, pc \in {{}, {"99213"}}}

SimThresholds == Thresholds \cup {800}

InitSim ==
    /\ \E a \in SimSubjects, b \in SimSubjects \cup SimOthers :
          claims = [c \in ClaimIds |-> IF c = 1 THEN a ELSE IF c = 2 THEN b ELSE NoClaim]
    /\ plans = SeedPlans
    /\ rules = SeedRules
    /\ policies = SeedPolicies
    /\ documents = [c \in ClaimIds |-> {}]
    /\ EmptyTables

NextSim == \E c \in ClaimIds, t \in SimThresholds : FindDuplicates(c, t)

SpecSim == InitSim /\ [][NextSim]_vars
(***************************************************************************)
(* The life of a stored claim: the seeded database and the operations that *)
(* act on a claim that exists.                                             *)
(***************************************************************************)
NextLife ==
    \/ \E c \in ClaimIds, t \in ClaimStatus : MoveAlongGraph(c, t)
    \/ \E c \in ClaimIds, u \in Users : SubmitClaim(c, u)
    \/ \E c \in ClaimIds, a \in Agents, d \in DecisionBodies :
          MakeDecision(c, a, d.decision, d.approved_amount)
    \/ \E c \in ClaimIds, a \in Agents : RequestInfo(c, a)
    \/ \E c \in ClaimIds, u \in Users : Respond(c, u)
    \/ \E c \in ClaimIds, actor \in Users \cup Agents : DeleteClaim(c, actor)
    \/ \E c \in ClaimIds, a \in Agents, t \in Agents : AssignClaim(c, a, t)
    \/ \E c \in ClaimIds : ProcessClaim(c)

SpecLife == Init /\ [][NextLife]_vars
\* the pipeline on the same claims, plans and rule sets: process_claim
NextProc == \E c \in ClaimIds : ProcessClaim(c)

SpecProc == InitEval /\ [][NextProc]_vars

(***************************************************************************)
(* The eligibility conditions of the specification (section 4.3), stated   *)
(* on the rows evaluate_claim has just read for claim c.                   *)
(***************************************************************************)
\* evaluate_claim has just returned for claim c; response.ok is its verdict
Evaluated(c) == response.op = "evaluate_claim" /\ response.claim = c

\* 1. the claim has a plan, the plan is active and has auto-approval enabled
HasAutoApprovePlan(c) ==
    /\ claims[c].plan_id # NULL
    /\ claims[c].plan_id \in DOMAIN plans
    /\ plans[claims[c].plan_id].is_active
    /\ plans[claims[c].plan_id].auto_approve_enabled

\* 2. total_amount <= plan.auto_approve_amount_cap
AmountWithinCap(c) ==
    claims[c].total_amount <= plans[claims[c].plan_id].auto_approve_amount_cap

\* 3. ocr_quality_score >= plan.min_ocr_quality_score (when present)
OcrQualityOk(c) ==
    \/ claims[c].ocr_quality_score = None
    \/ Val(claims[c].ocr_quality_score) >= plans[claims[c].plan_id].min_ocr_quality_score

\* 4. duplicate_score <= plan.max_duplicate_score
DuplicateScoreOk(c) ==
    claims[c].duplicate_score <= plans[claims[c].plan_id].max_duplicate_score

\* 5. every required document type is among the uploaded documents
RequiredDocumentsPresent(c) ==
    \A t \in plans[claims[c].plan_id].required_documents :
        \E d \in documents[c] : d.document_type = t

\* 6. the rule results of the claim hold no failure of the given severity
NoFailureOf(c, severity) ==
    \A i \in 1..Len(results[c]) :
        results[c][i].severity = severity => results[c][i].passed

SomeFailureOf(c, severity) == ~NoFailureOf(c, severity)

\* 7. extraction_confidence >= plan.min_confidence_score
ConfidenceOk(c) ==
    /\ claims[c].extraction_confidence # None
    /\ Val(claims[c].extraction_confidence) >= plans[claims[c].plan_id].min_confidence_score

\* 8. fraud_risk_score <= plan.max_fraud_risk_score
FraudRiskOk(c) ==
    claims[c].fraud_risk_score <= plans[claims[c].plan_id].max_fraud_risk_score

AllEightConditions(c) ==
    /\ HasAutoApprovePlan(c)
    /\ AmountWithinCap(c)
    /\ OcrQualityOk(c)
    /\ DuplicateScoreOk(c)
    /\ RequiredDocumentsPresent(c)
    /\ NoFailureOf(c, "error")
    /\ ConfidenceOk(c)
    /\ FraudRiskOk(c)

\* C7: evaluate returns eligible=True only for a claim whose total_amount is
\* at most the plan's auto_approve_amount_cap; in particular a cap of 0 makes
\* every claim with a nonzero amount ineligible.
C7_ZeroCapDisables ==
    \A c \in ClaimIds :
        (Evaluated(c) /\ response.ok) =>
            (HasAutoApprovePlan(c) /\ AmountWithinCap(c))

\* the rule a result row was produced by
RuleOf(rule_id) == CHOOSE i \in DOMAIN rules : rules[i].id = rule_id

\* C8: a rule whose rule_type is not one of the eight known types yields a
\* result with passed=False and a diagnostic message, never passed=True.
C8_UnknownRuleTypeFailsClosed ==
    \A c \in ClaimIds : \A i \in 1..Len(results[c]) :
        rules[RuleOf(results[c][i].rule_id)].rule_type \notin KnownRuleTypes =>
            /\ ~results[c][i].passed
            /\ results[c][i].message = "Unknown rule type"

\* C9: evaluate returns eligible=True only if the claim has an active plan
\* with auto-approval enabled, its OCR quality (when present), duplicate
\* score, required documents, extraction confidence and fraud risk meet the
\* plan's thresholds, and no rule of severity error failed.
C9_EligibleOnlyIfAllConditions ==
    \A c \in ClaimIds :
        (Evaluated(c) /\ response.ok) =>
            /\ HasAutoApprovePlan(c)
            /\ OcrQualityOk(c)
            /\ DuplicateScoreOk(c)
            /\ RequiredDocumentsPresent(c)
            /\ NoFailureOf(c, "error")
            /\ ConfidenceOk(c)
            /\ FraudRiskOk(c)

HasReason(c, text) ==
    \E i \in DOMAIN claims[c].auto_approval_reasons :
        claims[c].auto_approval_reasons[i] = text

\* C11: the reasons returned with eligible=False hold one entry for each
\* eligibility condition the claim violates, not only the first one found.
C11_CollectsEveryFailingCondition ==
    \A c \in ClaimIds :
        (Evaluated(c) /\ ~response.ok /\ PlanFound(plans, claims[c])) =>
            /\ ~plans[claims[c].plan_id].auto_approve_enabled =>
                   HasReason(c, "Auto-approval not enabled for this plan")
            /\ ~plans[claims[c].plan_id].is_active =>
                   HasReason(c, "Plan is not active")
            /\ ~AmountWithinCap(c) => HasReason(c, "Amount exceeds auto-approve cap")
            /\ ~OcrQualityOk(c) => HasReason(c, "OCR quality below threshold")
            /\ ~DuplicateScoreOk(c) => HasReason(c, "Duplicate score exceeds threshold")
            /\ ~RequiredDocumentsPresent(c) => HasReason(c, "Missing required documents")
            /\ ~ConfidenceOk(c) => HasReason(c, "Extraction confidence below threshold")
            /\ ~FraudRiskOk(c) => HasReason(c, "Fraud risk score exceeds threshold")
            /\ \A i \in DOMAIN results[c] :
                   (~results[c][i].passed /\ results[c][i].severity = "error") =>
                       HasReason(c, results[c][i].message)

\* process_claim has just handled claim c with the given outcome
Processed(c, outcome) ==
    /\ response.op = "process_claim"
    /\ response.claim = c
    /\ response.error = outcome

\* the texts evaluate_claim gives as passing justifications
PassingJustifications ==
    {"Plan allows auto-approval", "All validation rules passed",
     "Extraction confidence meets threshold",
     "Fraud risk score within acceptable range"}

LastDecision(c) == decisions[c][Len(decisions[c])]

\* C12: when evaluation returns eligible=True, processing the claim creates
\* one system Decision (decided_by null, is_auto_decision true,
\* approved_amount = total_amount, the passing justifications as reasons) and
\* the claim ends in AUTO_APPROVED.
C12_EligibleIsAutoApproved ==
    [][\A c \in ClaimIds :
          Processed(c, "auto_approved")' =>
              /\ claims'[c].status = "auto_approved"
              /\ claims'[c].auto_approval_eligible
              /\ Len(decisions'[c]) = Len(decisions[c]) + 1
              /\ SubSeq(decisions'[c], 1, Len(decisions[c])) = decisions[c]
              /\ LastDecision(c)'.decided_by_user_id = NULL
              /\ LastDecision(c)'.is_auto_decision
              /\ LastDecision(c)'.decision = "approved"
              /\ LastDecision(c)'.approved_amount = Some(claims[c].total_amount)
              /\ LastDecision(c)'.auto_decision_reasons # <<>>
              /\ \A i \in DOMAIN LastDecision(c)'.auto_decision_reasons :
                    LastDecision(c)'.auto_decision_reasons[i] \in PassingJustifications
              /\ LastDecision(c)'.auto_decision_reasons =
                     evaluate_claim(plans, rules, policies, claims[c], documents[c]).reasons]_vars

C12_Witness ==
    \E c \in ClaimIds :
        /\ Processed(c, "auto_approved")
        /\ claims[c].status = "auto_approved"
        /\ Len(decisions[c]) = 1
        /\ LastDecision(c).is_auto_decision
        /\ LastDecision(c).approved_amount = Some(500)

\* C13: when evaluation returns eligible=False, processing the claim moves it
\* to PENDING_REVIEW, stores the failure reasons on the claim with
\* auto_approval_eligible = False, and creates no Decision row.
C13_IneligibleIsRouted ==
    [][\A c \in ClaimIds :
          Processed(c, "routed_to_review")' =>
              /\ claims'[c].status = "pending_review"
              /\ ~claims'[c].auto_approval_eligible
              /\ claims'[c].auto_approval_reasons # <<>>
              /\ claims'[c].auto_approval_reasons =
                     evaluate_claim(plans, rules, policies, claims[c],
                                    documents[c]).failed_checks
              /\ decisions'[c] = decisions[c]]_vars

\* scenario B: a claim over the cap
C13_Witness ==
    \E c \in ClaimIds :
        /\ Processed(c, "routed_to_review")
        /\ claims[c].total_amount = 501
        /\ HasReason(c, "Amount exceeds auto-approve cap")
        /\ claims[c].status = "pending_review"
        /\ ~claims[c].auto_approval_eligible
        /\ decisions[c] = <<>>

\* C14: after any number of validation passes on a claim, the
\* ValidationResult rows stored for it are exactly the results of the latest
\* pass, one per applicable rule.
C14_ResultsAreOfTheLatestPass ==
    \A c \in ClaimIds :
        Evaluated(c) =>
            /\ Len(results[c]) = Len(ApplicableRules(rules, claims[c]))
            /\ results[c] = ValidationRun(rules, policies, claims[c], documents[c])

\* the rows a step adds to the validation results of claim c
NewResults(c) == SubSeq(results'[c], Len(results[c]) + 1, Len(results'[c]))

\* C15: a validation pass adds exactly one result per applicable rule, in
\* rule order; a rule whose evaluation raises gives a failed result carrying
\* the error text, and the rules after it are still evaluated.
C15_RuleFaultsAreIsolated ==
    [][\A c \in ClaimIds :
          (Evaluated(c)' /\ claims'[c] # claims[c]) =>
              LET app == ApplicableRules(rules, claims[c])
              IN  /\ Len(NewResults(c)) = Len(app)
                  /\ \A i \in 1..Len(app) :
                        /\ NewResults(c)[i].rule_id = app[i].id
                        /\ RuleOutcome(policies, claims[c], documents[c], app[i]).raised =>
                              /\ ~NewResults(c)[i].passed
                              /\ NewResults(c)[i].message = "Rule evaluation error"
                              /\ NewResults(c)[i].error =
                                     RuleOutcome(policies, claims[c], documents[c],
                                                 app[i]).message]_vars

C15_Witness ==
    \E c \in ClaimIds :
        /\ Evaluated(c)
        /\ Len(results[c]) = 2
        /\ results[c][1].rule_id = "r_broken"
        /\ ~results[c][1].passed
        /\ results[c][1].error # NULL
        /\ results[c][2].rule_id = "r_fields"
        /\ results[c][2].passed

\* the largest similarity_score among the given matches of claim c
MaxSimilarity(c, matched) ==
    SetMax({Min2(similarity_score(claims[c], claims[o]), 1000) : o \in matched})

\* C16: after every find_duplicates run, claim.duplicate_score is the maximum
\* similarity_score of the matches the run returned, and 0.0 when it
\* returned none.
C16_ScoreIsMaxOfReturnedMatches ==
    [][\A c \in ClaimIds, t \in Thresholds :
          FindDuplicates(c, t) =>
              claims'[c].duplicate_score =
                  IF duplicates(claims, c, t) = {} THEN 0
                  ELSE MaxSimilarity(c, duplicates(claims, c, t))]_vars

\* the DuplicateMatch rows recorded for claim c
MatchesOf(c) == {m \in duplicate_matches : m.claim_id = c}

\* C17: in every reachable state the duplicate_score of a claim is the maximum
\* similarity_score among the DuplicateMatch rows recorded for it, or 0.0 if
\* it has none.
C17_ScoreIsMaxOfRecordedMatches ==
    \A c \in ClaimIds :
        Exists(c) =>
            claims[c].duplicate_score =
                IF MatchesOf(c) = {} THEN 0
                ELSE SetMax({m.similarity_score : m \in MatchesOf(c)})

\* C18: after any number of find_duplicates runs and document intakes there
\* is at most one DuplicateMatch row for each ordered pair (claim, matched
\* claim).
C18_OneRowPerOrderedPair ==
    \A m1, m2 \in duplicate_matches :
        (m1.claim_id = m2.claim_id /\ m1.matched_claim_id = m2.matched_claim_id) =>
            m1 = m2

\* a run that returned a match whose pair was recorded before, with another score
C18_Witness ==
    \E c \in ClaimIds :
        /\ response.op = "find_duplicates"
        /\ response.claim = c
        /\ response.ok
        /\ \E m \in MatchesOf(c) :
              /\ m.matched_claim_id \in duplicates(claims, c, 600)
              /\ m.similarity_score #
                     similarity_score(claims[c], claims[m.matched_claim_id])
        /\ Cardinality(MatchesOf(c)) = 1

\* the step takes in, as the new claim c, a file whose hash a stored document has
FileDuplicateIntake(c) ==
    /\ ~Exists(c)
    /\ claims'[c].status # NoRow
    /\ \E d \in documents'[c] : HoldersOf(documents, d.file_hash) # {}

\* C19: when a document is taken in whose content hash equals the hash of a
\* stored document, the new claim's duplicate_score is 1.0 whatever the
\* heuristic similarity is, and a DuplicateMatch with similarity 1.0 and the
\* exact-file-duplicate reason is recorded from the new claim to a claim that
\* owns a document with that hash.
C19_FileDuplicateScoresOne ==
    [][\A c \in ClaimIds :
          FileDuplicateIntake(c) =>
              /\ claims'[c].duplicate_score = 1000
              /\ \E m \in duplicate_matches' \ duplicate_matches :
                    /\ m.claim_id = c
                    /\ m.similarity_score = 1000
                    /\ m.reasons = {"file"}
                    /\ \E d \in documents'[c] :
                          m.matched_claim_id \in HoldersOf(documents, d.file_hash)]_vars

\* the file of claim 1 taken in again as claim 2, processed, with a heuristic
\* similarity below 1.0
C19_Witness ==
    /\ response.op = "upload_and_create_claim"
    /\ response.claim = 2
    /\ claims[2].status = "extracted"
    /\ claims[2].duplicate_score = 1000
    /\ \E d1 \in documents[1], d2 \in documents[2] : d1.file_hash = d2.file_hash
    /\ similarity_score(claims[2], claims[1]) < 1000
    /\ similarity_score(claims[2], claims[1]) >= 600

\* the step is a decision event on claim c: a successful decide call or an
\* automatic approval
DecisionEvent(c) ==
    /\ response'.claim = c
    /\ response'.ok
    /\ \/ response'.op = "make_decision"
       \/ response'.op = "auto_approve_claim"
       \/ response'.op = "process_claim" /\ response'.error = "auto_approved"

\* C20: a Decision row is created exactly once per human or automatic
\* decision event and is never changed afterward: every step keeps the
\* Decision rows a claim already has, and adds one row exactly when it is a
\* successful decide call or an automatic approval on that claim.
C20_OneRowPerDecisionEvent ==
    [][\A c \in ClaimIds :
          /\ Len(decisions'[c]) >= Len(decisions[c])
          /\ SubSeq(decisions'[c], 1, Len(decisions[c])) = decisions[c]
          /\ Len(decisions'[c]) =
                Len(decisions[c]) + (IF DecisionEvent(c) THEN 1 ELSE 0)]_vars

\* C21: the audit log is append-only: every step keeps the entries each claim
\* already has, in their order and unedited, and can only add entries after
\* them.
C21_AuditIsAppendOnly ==
    [][\A c \in ClaimIds :
          /\ Len(audit'[c]) >= Len(audit[c])
          /\ SubSeq(audit'[c], 1, Len(audit[c])) = audit[c]]_vars

\* a claim with earlier entries has just been written to again
C21_Witness ==
    \E c \in ClaimIds :
        /\ Len(audit[c]) >= 3
        /\ audit[c][1].action # audit[c][3].action
        /\ response.claim = c
        /\ response.ok

\* C22: every step that moves a claim into AUTO_APPROVED, APPROVED or DENIED,
\* whether through transition_status, a decision or an automatic approval,
\* sets processed_at to the time of the step: later than the last write
\* before it, and the time of the write itself.
C22_ProcessedAtSetOnDecidedStatus ==
    [][\A c \in ClaimIds :
          (StatusChanged(c) /\ claims'[c].status \in {"auto_approved", "approved", "denied"}) =>
              /\ claims'[c].processed_at > claims[c].updated_at
              /\ claims'[c].processed_at = claims'[c].updated_at]_vars

\* process_claim has just approved a claim that had never been processed
C22_Witness ==
    \E c \in ClaimIds :
        /\ response.op = "process_claim"
        /\ response.claim = c
        /\ response.from # "auto_approved"
        /\ claims[c].status = "auto_approved"
        /\ claims[c].processed_at = claims[c].updated_at

\* C29: processed_at is set only by a decision: a step that does not leave
\* the claim in AUTO_APPROVED, APPROVED or DENIED (a decide with outcome
\* PENDED or ESCALATED included) leaves processed_at unchanged, so a claim
\* with a processed_at has entered one of the three statuses.
C29_ProcessedAtOnlyByDecision ==
    [][\A c \in ClaimIds :
          claims'[c].processed_at # claims[c].processed_at =>
              claims'[c].status \in {"auto_approved", "approved", "denied"}]_vars

\* C23: every match recorded by find_duplicates pairs the claim with a
\* different claim of the same claimant whose status when the detector runs
\* is neither DRAFT nor DENIED.  The rows of the detector are the rows added
\* with heuristic reasons; the file-hash row is written by the intake itself.
C23_PoolIsSameClaimantNotDraftNotDenied ==
    [][\A m \in duplicate_matches' \ duplicate_matches :
          m.reasons # {"file"} =>
              /\ m.matched_claim_id # m.claim_id
              /\ claims[m.matched_claim_id].status \notin {NoRow, "draft", "denied"}
              /\ claims[m.matched_claim_id].user_id = claims'[m.claim_id].user_id]_vars

\* the detector has run on a claim and left out a similar claim that is in
\* DRAFT while it has recorded a match in the other direction
C23_Witness ==
    /\ \E m \in duplicate_matches : m.reasons # {"file"}
    /\ \E c, o \in ClaimIds :
          /\ c # o
          /\ Exists(c) /\ Exists(o)
          /\ similarity_score(claims[c], claims[o]) >= 600
          /\ claims[o].status = "draft"
          /\ claims[o].user_id = claims[c].user_id
          /\ HasMatch(duplicate_matches, o, c)
          /\ ~HasMatch(duplicate_matches, c, o)
          /\ response.op = "find_duplicates"
          /\ response.claim = c

\* the sum of the weights of a set of signals, in thousandths
WeightSum(signals) ==
    (IF "amount" \in signals THEN 300 ELSE 0)
    + (IF "date" \in signals THEN 300 ELSE 0)
    + (IF "provider" \in signals THEN 200 ELSE 0)
    + (IF "category" \in signals THEN 100 ELSE 0)
    + (IF "procedure" \in signals THEN 100 ELSE 0)

\* C24: the similarity of a pair is the sum of the weights of the signals
\* that match, capped at 1.0, and a run of find_duplicates records a
\* DuplicateMatch, with that score and the contributing reasons, for exactly
\* the pairs of the pool whose score is at or above the threshold (a pair
\* that already has a row keeps it).
C24_ScoreIsWeightSumAndRecordedAtThreshold ==
    [][\A c \in ClaimIds, t \in SimThresholds :
          FindDuplicates(c, t) =>
              \A o \in similar_claims(claims, c) :
                  LET signals == match_reasons(claims[c], claims[o])
                      score == Min2(WeightSum(signals), 1000)
                  IN  ~HasMatch(duplicate_matches, c, o) =>
                          /\ score >= t <=> HasMatch(duplicate_matches', c, o)
                          /\ \A m \in duplicate_matches' :
                                (m.claim_id = c /\ m.matched_claim_id = o) =>
                                    /\ m.similarity_score = score
                                    /\ m.reasons = signals]_vars

\* C30: the heuristic similarity is symmetric: for two stored claims of the
\* same claimant, the score and the matching signals computed for a against
\* b equal those computed for b against a, so the pair is at or above a
\* threshold in one direction exactly when it is in the other.
C30_SimilarityIsSymmetric ==
    \A a, b \in ClaimIds :
        (Exists(a) /\ Exists(b) /\ a # b /\ claims[a].user_id = claims[b].user_id) =>
            /\ match_reasons(claims[a], claims[b]) = match_reasons(claims[b], claims[a])
            /\ similarity_score(claims[a], claims[b]) = similarity_score(claims[b], claims[a])
            /\ \A t \in SimThresholds :
                  similarity_score(claims[a], claims[b]) >= t
                      <=> similarity_score(claims[b], claims[a]) >= t

\* C25: submit_claim succeeds for the owner's claim in each of the five
\* submittable statuses: from DRAFT the claim is left in SUBMITTED, from
\* SUBMITTED, EXTRACTED, VALIDATED and PENDED in PENDING_REVIEW.
C25_SubmitSucceedsFromEverySubmittableStatus ==
    response.op = "submit_claim" =>
        /\ response.from \in {"draft", "submitted", "extracted", "validated", "pended"}
        /\ response.ok
        /\ claims[response.claim].status =
              (IF response.from = "draft" THEN "submitted" ELSE "pending_review")

\* C26: a rejected transition changes nothing: transition_status called with
\* a target that is not in the adjacency list of the current status raises,
\* the claim row (status, updated_at, submitted_at, processed_at) is as it
\* was and no audit entry is appended.
C26_RejectedTransitionChangesNothing ==
    [][\A c \in ClaimIds, t \in ClaimStatus :
          (TransitionStatus(c, t) /\ t \notin _get_valid_transitions(claims[c].status)) =>
              /\ ~response'.ok
              /\ response'.error = "ValueError"
              /\ claims'[c].status = claims[c].status
              /\ claims'[c].updated_at = claims[c].updated_at
              /\ claims'[c].submitted_at = claims[c].submitted_at
              /\ claims'[c].processed_at = claims[c].processed_at
              /\ audit' = audit]_vars

\* a move to APPROVED has just been refused for a claim that is in DRAFT
C26_Witness ==
    /\ response.op = "transition_status"
    /\ ~response.ok
    /\ response.from = "draft"
    /\ response.to = "approved"
    /\ claims[response.claim].status = "draft"
    /\ claims[response.claim].processed_at = 0

\* C27: a decided claim is never reopened: once a claim's status is
\* AUTO_APPROVED, APPROVED or DENIED, every later step leaves it in that
\* status or moves it to CLOSED.
C27_DecidedIsNeverReopened ==
    [][\A c \in ClaimIds :
          claims[c].status \in {"auto_approved", "approved", "denied"} =>
              claims'[c].status \in {claims[c].status, "closed"}]_vars

\* C28: a soft-deleted claim is frozen: deleted_at is set only on claims
\* that are not in APPROVED, DENIED, AUTO_APPROVED or CLOSED, and once it is
\* set no later request (submit, decide, request-info, respond, document
\* upload, assignment, delete) changes the claim's status or adds a Decision
\* for it.
C28_SoftDeletedIsFrozen ==
    [][\A c \in ClaimIds :
          /\ (claims[c].deleted_at = 0 /\ claims'[c].deleted_at # 0) =>
                claims[c].status \notin {NoRow, "approved", "denied", "auto_approved", "closed"}
          /\ (claims[c].deleted_at # 0
                 /\ response'.op \notin {"transition_status", "process_claim"}) =>
                /\ claims'[c].status = claims[c].status
                /\ decisions'[c] = decisions[c]]_vars

====
